---- MODULE Spec2Model ----
(***************************************************************************)
(* Model of the story-generator knowledge store (src/vector_store.py) and  *)
(* of the POST /generate-story handler (src/main.py).                      *)
(*                                                                         *)
(* Texts and queries are small integers; a Python dict is a set of         *)
(* <<key, value>> pairs with at most one pair per key; the vector database *)
(* is the set of points of the one collection the store uses.              *)
(***************************************************************************)
EXTENDS Integers, Sequences, FiniteSets

\* ------------------------------------------------------------------ bounds
\* The distinct texts, the longest texts list of one add_texts call, the
\* largest search limit, and the add_texts calls the concurrent callers begin.
NumTexts == 2
MaxBatch == 1
MaxLimit == 2
MaxSeeds == 3

Texts == 1..NumTexts
Queries == Texts

\* The value search() substitutes for a payload without a "text" key: "".
EmptyString == 0

\* ------------------------------------------------------------ Python dicts
Keys(d) == {p[1] : p \in d}

\* {**base, **over}: the later mapping wins on a shared key.
Merge(base, over) == {p \in base : p[1] \notin Keys(over)} \cup over

\* d.get(k, default)
Get(d, k, default) ==
    IF k \in Keys(d) THEN (CHOOSE p \in d : p[1] = k)[2] ELSE default

\* The metadata dicts a caller passes.
Metas == { {<<"a", 10>>}, {<<"b", 11>>} }

\* ---------------------------------------------------------------- helpers
Min(a, b) == IF a < b THEN a ELSE b

Range(s) == {s[i] : i \in 1..Len(s)}

SeqsUpTo(S, n) == UNION {[1..k -> S] : k \in 0..n}

\* ------------------------------------------------------ embedding provider
\* SentenceTransformer("all-MiniLM-L6-v2").encode: a deterministic map from a
\* text to a vector of fixed norm (the model normalises its output); here
\* integer vectors of norm 5 in the plane.
EmbedTable == << <<4, 3>>, <<5, 0>>, <<4, -3>>, <<3, 4>>, <<0, 5>> >>

Encode(text) == EmbedTable[((text - 1) % Len(EmbedTable)) + 1]

\* Distance.COSINE on vectors of equal norm: the dot product orders points as
\* the cosine does (cosine = Score / 25).
Score(u, v) == u[1] * v[1] + u[2] * v[2]

\* ------------------------------------------------------------------ state
VARIABLES
    exists,         \* the collection exists in the vector database
    points,         \* the collection's points: records [id, vector, payload]
    constructed,    \* a VectorStore object has been constructed
    encoderLoaded,  \* its _encoder is not None
    initialized,    \* a construction has run _create_collection without a failure
    last,           \* the call that has just returned to the caller, and its outcome
    prevSeed,       \* the point written by the call before it, when that call
                    \* was an add_texts of one text that succeeded
    jobs,           \* concurrent callers: each caller's add_texts in progress
    begun,          \* the number of concurrent add_texts calls begun
    race,           \* the last two upserts of add_texts calls that overlapped
    response        \* the last response of POST /generate-story

storeVars == <<exists, points, constructed, encoderLoaded, initialized, last, prevSeed>>
concVars == <<jobs, begun, race>>
vars == <<storeVars, concVars, response>>

Callers == {"c1", "c2"}

IdleJob == [pc |-> "idle", texts |-> <<>>, metas |-> <<>>, i |-> 0, batch |-> <<>>]

NoRace == [first |-> <<>>, second |-> <<>>, waiting |-> "none"]

NoResponse ==
    [http |-> 0, unhandled |-> FALSE, detail |-> "", story_id |-> "",
     status |-> "", subject |-> "", topic |-> "", grade |-> "",
     curriculum |-> "", started_at |-> "", error |-> "", scenes |-> <<>>,
     stage |-> "", seeding |-> "", generation |-> ""]

NoMetadata == [none |-> TRUE, list |-> <<>>]
GivenMetadata(l) == [none |-> FALSE, list |-> l]

NoCall ==
    [op |-> "none", texts |-> <<>>, query |-> 0, limit |-> 0, fault |-> "none",
     raised |-> FALSE, result |-> <<>>, calls |-> {}, ids |-> <<>>,
     changed |-> FALSE, sizeBefore |-> 0, wasInitialized |-> FALSE]

NoSeed == [text |-> 0, id |-> 0, payload |-> {}]

Init ==
    /\ exists \in BOOLEAN
    /\ points = {}
    /\ constructed = FALSE
    /\ encoderLoaded = FALSE
    /\ initialized = FALSE
    /\ last = NoCall
    /\ prevSeed = NoSeed
    /\ jobs = [c \in Callers |-> IdleJob]
    /\ begun = 0
    /\ race = NoRace
    /\ response = NoResponse

\* ------------------------------------------------------- vector index client
\* A faulty variant of UpsertOne: a stored point of the same id is kept.
UpsertOneKeep(pts, p) == IF \E q \in pts : q.id = p.id THEN pts ELSE pts \cup {p}

\* client.upsert of one point: it replaces the stored point of the same id.
UpsertOne(pts, p) == {q \in pts : q.id # p.id} \cup {p}

RECURSIVE Upsert(_, _)
Upsert(pts, batch) ==
    IF batch = <<>> THEN pts
    ELSE Upsert(UpsertOne(pts, Head(batch)), Tail(batch))

\* len(client.scroll(collection_name, limit=1)[0]): the number of records in
\* a page of at most one record.
ScrollLimit == 1
ScrollLen(pts) == Min(ScrollLimit, Cardinality(pts))

\* point_id = i + len(scroll(...)[0]), i the 0-based position in the batch.
PointId(i, pts) == i + ScrollLen(pts)

\* payload = {"text": text, **(meta or {})}
Payload(text, meta) == Merge({<<"text", text>>}, meta)

\* client.search(query_vector, limit): the ids of up to `limit` nearest points,
\* most similar first; the order among points of equal score is the
\* database's choice.
ClientSearch(pts, qv, limit) ==
    LET n == Min(limit, Cardinality(pts))
        ids == {p.id : p \in pts}
        sc(id) == Score(qv, (CHOOSE p \in pts : p.id = id).vector)
    IN  {h \in [1..n -> ids] :
            /\ \A i, j \in 1..n : i < j => h[i] # h[j] /\ sc(h[i]) >= sc(h[j])
            /\ \A id \in ids \ Range(h) : \A i \in 1..n : sc(h[i]) >= sc(id)}

\* ---------------------------------------------------------- VectorStore
\* The encoder property: the model is loaded on first use. A failed load
\* leaves _encoder None and raises.
EncoderAccess(loaded, fault) ==
    IF loaded THEN [loaded |-> TRUE, calls |-> {}, exc |-> "none"]
    ELSE IF fault = "load_model"
         THEN [loaded |-> FALSE, calls |-> {"load_model"}, exc |-> "load_model"]
         ELSE [loaded |-> TRUE, calls |-> {"load_model"}, exc |-> "none"]

\* A faulty variant of NeedsCreate: the collection is created unconditionally.
NeedsCreateAlways(ex) == TRUE

\* `if self.collection_name not in existing_names`
NeedsCreate(ex) == ~ex

\* `except Exception as e: print(...)` of _create_collection: TRUE iff the
\* exception leaves the method.
CreateCollectionExcept(exc) == FALSE

\* The body of _create_collection's try block, from a database where the
\* collection exists iff ex, with the external call named by fault failing if
\* it is reached. client.create_collection raises on an existing collection.
CreateCollectionBody(ex, loaded, fault) ==
    IF fault = "get_collections"
    THEN [exists |-> ex, loaded |-> loaded, calls |-> {"get_collections"},
          exc |-> "get_collections"]
    ELSE IF ~NeedsCreate(ex)
    THEN [exists |-> ex, loaded |-> loaded, calls |-> {"get_collections"},
          exc |-> "none"]
    ELSE LET enc == EncoderAccess(loaded, fault)
             sofar == {"get_collections"} \cup enc.calls
         IN  IF enc.exc # "none"
             THEN [exists |-> ex, loaded |-> enc.loaded, calls |-> sofar,
                   exc |-> enc.exc]
             ELSE IF fault = "get_dimension"
             THEN [exists |-> ex, loaded |-> TRUE,
                   calls |-> sofar \cup {"get_dimension"},
                   exc |-> "get_dimension"]
             ELSE IF fault = "create_collection" \/ ex
             THEN [exists |-> ex, loaded |-> TRUE,
                   calls |-> sofar \cup {"get_dimension", "create_collection"},
                   exc |-> "create_collection"]
             ELSE [exists |-> TRUE, loaded |-> TRUE,
                   calls |-> sofar \cup {"get_dimension", "create_collection"},
                   exc |-> "none"]

InitFaults ==
    {"none", "get_collections", "load_model", "get_dimension", "create_collection"}

\* VectorStore.__init__: a fresh object (its _encoder None) on the same
\* database, then _create_collection.
VectorStoreInit(fault) ==
    /\ last.op = "none"
    /\ \E r \in {CreateCollectionBody(exists, FALSE, fault)} :
           /\ exists' = r.exists
           /\ points' = points
           /\ encoderLoaded' = r.loaded
           /\ constructed' = TRUE
           /\ initialized' = (initialized \/ r.exc = "none")
           /\ last' = [NoCall EXCEPT !.op = "init", !.fault = r.exc,
                          !.raised = (r.exc # "none" /\ CreateCollectionExcept(r.exc)),
                          !.calls = r.calls, !.changed = (points' # points),
                          !.sizeBefore = Cardinality(points),
                          !.wasInitialized = initialized]
    /\ UNCHANGED <<prevSeed, concVars, response>>

\* A faulty variant of EmptyInput: no early return.
EmptyInputNever(texts) == FALSE

\* `if not texts: return`
EmptyInput(texts) == texts = <<>>

\* `if metadata is None: metadata = [{}] * len(texts)`
DefaultMetadata(texts, metadata) ==
    IF metadata.none THEN [i \in 1..Len(texts) |-> {}] ELSE metadata.list

\* The points add_texts builds from zip(vectors, texts, metadata) against a
\* collection holding pts: zip stops at the shorter of texts and metadata.
BuildPoints(texts, metas, pts) ==
    [i \in 1..Min(Len(texts), Len(metas)) |->
        [id |-> PointId(i - 1, pts),
         vector |-> Encode(texts[i]),
         payload |-> Payload(texts[i], metas[i])]]

\* A faulty variant of AddTextsExcept: the handler re-raises.
AddTextsReraise(exc) == TRUE

\* `except Exception as e: print(...)` of add_texts: TRUE iff the exception
\* leaves the method.
AddTextsExcept(exc) == FALSE

\* The body of add_texts's try block. The external call named by fault fails
\* if it is reached; scroll also fails when the collection does not exist; a
\* failing upsert has written the first `written` points of the batch (a
\* batch is not transactional).
AddTextsBody(texts, metas, pts, ex, loaded, fault, written) ==
    LET enc == EncoderAccess(loaded, fault)
        batch == BuildPoints(texts, metas, pts)
        c1 == enc.calls \cup {"encode"}
        c2 == c1 \cup {"scroll"}
        c3 == c2 \cup {"upsert"}
    IN  IF enc.exc # "none"
        THEN [points |-> pts, loaded |-> enc.loaded, calls |-> enc.calls,
              exc |-> enc.exc, ids |-> <<>>]
        ELSE IF fault = "encode"
        THEN [points |-> pts, loaded |-> TRUE, calls |-> c1, exc |-> "encode",
              ids |-> <<>>]
        ELSE IF batch = <<>>
        THEN [points |-> pts, loaded |-> TRUE, calls |-> c1, exc |-> "none",
              ids |-> <<>>]
        ELSE IF fault = "scroll" \/ ~ex
        THEN [points |-> pts, loaded |-> TRUE, calls |-> c2, exc |-> "scroll",
              ids |-> <<>>]
        ELSE IF fault = "upsert"
        THEN [points |-> Upsert(pts, SubSeq(batch, 1, Min(written, Len(batch)))),
              loaded |-> TRUE, calls |-> c3, exc |-> "upsert",
              ids |-> [i \in 1..Len(batch) |-> batch[i].id]]
        ELSE [points |-> Upsert(pts, batch), loaded |-> TRUE, calls |-> c3,
              exc |-> "none", ids |-> [i \in 1..Len(batch) |-> batch[i].id]]

\* add_texts(texts, metadata) from a collection holding pts: the early return
\* on empty input, otherwise the try block.
AddTextsResult(texts, metadata, pts, ex, loaded, fault, written) ==
    IF EmptyInput(texts)
    THEN [points |-> pts, loaded |-> loaded, calls |-> {}, exc |-> "none",
          ids |-> <<>>]
    ELSE AddTextsBody(texts, DefaultMetadata(texts, metadata), pts, ex, loaded,
                      fault, written)

AddFaults == {"none", "load_model", "encode", "scroll", "upsert"}

TextBatches == SeqsUpTo(Texts, MaxBatch)

\* The metadata arguments a caller passes with texts: none, or a list of
\* dicts as long as texts, one shorter (zip then drops the last text) or one
\* longer.
MetadataArgs(texts) ==
    {NoMetadata}
    \cup {GivenMetadata([i \in 1..k |-> m]) :
            k \in {Len(texts) - 1, Len(texts), Len(texts) + 1} \cap Nat,
            m \in Metas}

\* VectorStore.add_texts(texts, metadata)
AddTexts(texts, metadata, fault, written) ==
    /\ constructed
    /\ last.op = "none"
    /\ \E r \in {AddTextsResult(texts, metadata, points, exists, encoderLoaded,
                                fault, written)} :
           /\ points' = r.points
           /\ encoderLoaded' = r.loaded
           /\ last' = [NoCall EXCEPT !.op = "add_texts", !.texts = texts,
                          !.fault = r.exc,
                          !.raised = (r.exc # "none" /\ AddTextsExcept(r.exc)),
                          !.calls = r.calls, !.ids = r.ids,
                          !.changed = (r.points # points),
                          !.sizeBefore = Cardinality(points),
                          !.wasInitialized = initialized]
    /\ UNCHANGED <<exists, constructed, initialized, prevSeed, concVars, response>>

\* A faulty variant of SearchHits: the limit argument is not passed on.
SearchHitsUnlimited(pts, qv, limit) == ClientSearch(pts, qv, Cardinality(pts))

\* `self.client.search(collection_name, query_vector=query_vector, limit=limit)`
SearchHits(pts, qv, limit) == ClientSearch(pts, qv, limit)

\* A faulty variant of ResultEntry: the text is read from the wrong payload key.
ResultEntryWrongKey(p, qv) ==
    Merge({<<"text", Get(p.payload, "content", EmptyString)>>,
           <<"score", Score(qv, p.vector)>>},
          {kv \in p.payload : kv[1] # "text"})

\* One entry of search's result: {"text": payload.get("text", ""),
\* "score": score, **{k: v for k, v in payload.items() if k != "text"}}
ResultEntry(p, qv) ==
    Merge({<<"text", Get(p.payload, "text", EmptyString)>>,
           <<"score", Score(qv, p.vector)>>},
          {kv \in p.payload : kv[1] # "text"})

\* A faulty variant of SearchExcept: the handler re-raises.
SearchReraise(exc) == TRUE

\* `except Exception as e: print(...); return []` of search: TRUE iff the
\* exception leaves the method.
SearchExcept(exc) == FALSE

\* search(query, limit) against a collection holding pts, the database
\* answering with hits.
SearchResult(query, limit, pts, ex, loaded, fault, hits) ==
    LET enc == EncoderAccess(loaded, fault)
        qv == Encode(query)
    IN  IF enc.exc # "none"
        THEN [loaded |-> enc.loaded, calls |-> enc.calls, exc |-> enc.exc,
              result |-> <<>>]
        ELSE IF fault = "encode"
        THEN [loaded |-> TRUE, calls |-> enc.calls \cup {"encode"},
              exc |-> "encode", result |-> <<>>]
        ELSE IF fault = "search" \/ ~ex
        THEN [loaded |-> TRUE, calls |-> enc.calls \cup {"encode", "search"},
              exc |-> "search", result |-> <<>>]
        ELSE [loaded |-> TRUE, calls |-> enc.calls \cup {"encode", "search"},
              exc |-> "none",
              result |-> [i \in 1..Len(hits) |->
                            ResultEntry(CHOOSE p \in pts : p.id = hits[i], qv)]]

SearchFaults == {"none", "load_model", "encode", "search"}

\* VectorStore.search(query, limit)
Search(query, limit, fault) ==
    /\ constructed
    /\ last.op = "none"
    /\ \E hits \in SearchHits(points, Encode(query), limit) :
         \E r \in {SearchResult(query, limit, points, exists, encoderLoaded,
                                fault, hits)} :
             /\ points' = points
             /\ encoderLoaded' = r.loaded
             /\ last' = [NoCall EXCEPT !.op = "search", !.query = query,
                            !.limit = limit, !.fault = r.exc,
                            !.raised = (r.exc # "none" /\ SearchExcept(r.exc)),
                            !.result = r.result, !.calls = r.calls,
                            !.changed = (points' # points),
                            !.sizeBefore = Cardinality(points),
                            !.wasInitialized = initialized]
    /\ UNCHANGED <<exists, constructed, initialized, prevSeed, concVars, response>>

\* The point a returned call leaves for the next call to be compared with.
SeedOf(call, pts) ==
    IF call.op = "add_texts" /\ call.fault = "none" /\ Len(call.texts) = 1
       /\ Len(call.ids) = 1
    THEN [text |-> call.texts[1], id |-> call.ids[1],
          payload |-> (CHOOSE p \in pts : p.id = call.ids[1]).payload]
    ELSE IF call.op = "search" THEN prevSeed
    ELSE NoSeed

\* The caller takes the returned value; the store is idle until the next call
\* (all calls are synchronous and made from one thread).
Return ==
    /\ last.op # "none"
    /\ last' = NoCall
    /\ prevSeed' = SeedOf(last, points)
    /\ UNCHANGED <<exists, points, constructed, encoderLoaded, initialized,
                   concVars, response>>

\* The caller's next call, made once the previous one has returned: a
\* construction, an add_texts or a search, with any arguments and any failure
\* of the services behind them.
Construct ==
    /\ last.op = "none"
    /\ \E fault \in InitFaults : VectorStoreInit(fault)

Seed ==
    /\ last.op = "none"
    /\ constructed
    /\ \E texts \in TextBatches, fault \in AddFaults :
         \E metadata \in MetadataArgs(texts) :
           \E written \in (IF fault = "upsert" THEN 0..Len(texts) ELSE {0}) :
             AddTexts(texts, metadata, fault, written)

Retrieve ==
    /\ last.op = "none"
    /\ constructed
    /\ \E query \in Queries, limit \in 0..MaxLimit, fault \in SearchFaults :
         Search(query, limit, fault)

Next == Construct \/ Seed \/ Retrieve \/ Return

Spec == Init /\ [][Next]_vars

\* ------------------------------------------- concurrent add_texts callers
\* Two callers seed the same collection (without metadata); the calls of one
\* add_texts to the embedding model and to the database are separate steps,
\* and the steps of the two callers interleave.
InitConc ==
    /\ exists = TRUE
    /\ points = {}
    /\ constructed = TRUE
    /\ encoderLoaded = TRUE
    /\ initialized = TRUE
    /\ last = NoCall
    /\ prevSeed = NoSeed
    /\ jobs = [c \in Callers |-> IdleJob]
    /\ begun = 0
    /\ race = NoRace
    /\ response = NoResponse

\* add_texts up to the loop: the early return, the default metadata and
\* encoder.encode(texts). An empty zip skips the loop and the upsert.
SeedBegin(c, texts, metadata, fault) ==
    /\ jobs[c].pc = "idle"
    /\ begun < MaxSeeds
    /\ begun' = begun + 1
    /\ LET metas == DefaultMetadata(texts, metadata)
       IN  jobs' = [jobs EXCEPT ![c] =
                IF EmptyInput(texts) \/ fault = "encode"
                   \/ Min(Len(texts), Len(metas)) = 0
                THEN IdleJob
                ELSE [pc |-> "scroll", texts |-> texts, metas |-> metas,
                      i |-> 0, batch |-> <<>>]]
    /\ UNCHANGED <<storeVars, race, response>>

\* One iteration of the loop: a scroll of the collection as it is now, and
\* the point for position i.
SeedScroll(c, fault) ==
    /\ jobs[c].pc = "scroll"
    /\ LET j == jobs[c]
           n == Min(Len(j.texts), Len(j.metas))
           p == BuildPoints(j.texts, j.metas, points)[j.i + 1]
       IN  jobs' = [jobs EXCEPT ![c] =
                IF fault = "scroll" \/ ~exists THEN IdleJob
                ELSE [j EXCEPT !.i = j.i + 1,
                               !.batch = Append(j.batch, p),
                               !.pc = IF j.i + 1 = n THEN "upsert" ELSE "scroll"]]
    /\ UNCHANGED <<storeVars, begun, race, response>>

\* client.upsert(points) and the return. race records this upsert when the
\* other caller has read the collection and not yet written (first), and the
\* upsert of that other caller when it follows (second).
SeedUpsert(c, fault, written) ==
    /\ jobs[c].pc = "upsert"
    /\ LET j == jobs[c]
           waitingOthers == {o \in Callers \ {c} : jobs[o].pc = "upsert"}
       IN  /\ points' = IF fault = "upsert"
                        THEN Upsert(points, SubSeq(j.batch, 1, Min(written, Len(j.batch))))
                        ELSE Upsert(points, j.batch)
           /\ race' = IF fault = "upsert" THEN NoRace
                      ELSE IF race.waiting = c /\ race.second = <<>>
                      THEN [race EXCEPT !.second = j.batch]
                      ELSE IF waitingOthers # {}
                      THEN [first |-> j.batch, second |-> <<>>,
                            waiting |-> CHOOSE o \in waitingOthers : TRUE]
                      ELSE NoRace
    /\ jobs' = [jobs EXCEPT ![c] = IdleJob]
    /\ UNCHANGED <<exists, constructed, encoderLoaded, initialized, last, prevSeed,
                   begun, response>>

NextConc ==
    \/ \E c \in Callers, texts \in TextBatches, fault \in {"none", "encode"} :
         SeedBegin(c, texts, NoMetadata, fault)
    \/ \E c \in Callers, fault \in {"none", "scroll"} : SeedScroll(c, fault)
    \/ \E c \in Callers, fault \in {"none", "upsert"} :
         \E written \in (IF fault = "upsert" THEN 0..Len(jobs[c].batch) ELSE {0}) :
            SeedUpsert(c, fault, written)

SpecConc == InitConc /\ [][NextConc]_vars

\* ------------------------------------------------- POST /generate-story
Subjects == {"", "Mathematics", "History"}
Topics == {"", "Trigonometry", "Fractions"}
Grades == {"grade_6", "grade_5"}
Curricula == {"CBSE", "Common Core"}
SpecificAreas == {"None", "", "cosine theta"}
StoryIds == {"uuid-1", "uuid-2"}
Times == {"t1"}

\* What seed_knowledge_base and generate_complete_story can do to their
\* caller: return or raise.
SeedOutcomes == {"returns", "raises"}
GenOutcomes == {"returns", "raises"}
SceneLists == {<<>>, <<"scene 1">>, <<"scene 1", "scene 2">>}

\* `if not request.subject or not request.topic`
MissingField(subject, topic) == subject = "" \/ topic = ""

\* The exception the try block ends with ("none": it returns story_data), and
\* whether story_id and started_at were assigned before it.
TryBlock(subject, topic, seeding, generation) ==
    IF MissingField(subject, topic)
    THEN [exc |-> "HTTPException", error |-> "400: Subject and topic are required",
          bound |-> FALSE]
    ELSE IF seeding = "raises"
    THEN [exc |-> "Exception", error |-> "seeding failed", bound |-> TRUE]
    ELSE IF generation = "raises"
    THEN [exc |-> "Exception", error |-> "generation failed", bound |-> TRUE]
    ELSE [exc |-> "none", error |-> "", bound |-> TRUE]

\* `except Exception as e: return {"story_id": story_id, "status": "failed",
\* ..., "started_at": started_at, "error": str(e), ...}`. HTTPException is an
\* Exception, so the 400 raised in the try block lands here too; reading
\* story_id before its assignment raises UnboundLocalError out of the handler,
\* which the framework answers with 500.
ExceptBlock(t, req) ==
    IF ~t.bound
    THEN [NoResponse EXCEPT !.http = 500, !.unhandled = TRUE,
                            !.detail = "Internal Server Error",
                            !.subject = req.subject, !.topic = req.topic]
    ELSE [NoResponse EXCEPT !.http = 200, !.story_id = req.story_id,
                            !.status = "failed", !.subject = req.subject,
                            !.topic = req.topic, !.grade = req.grade,
                            !.curriculum = req.curriculum,
                            !.started_at = req.now, !.error = t.error,
                            !.stage = "failed"]

\* generate_story(request): the try block and its except clause.
GenerateStoryResponse(req, seeding, generation, scenes) ==
    LET t == TryBlock(req.subject, req.topic, seeding, generation)
    IN  IF t.exc = "none"
        THEN [NoResponse EXCEPT !.http = 200, !.story_id = req.story_id,
                                !.status = "completed", !.subject = req.subject,
                                !.topic = req.topic, !.grade = req.grade,
                                !.curriculum = req.curriculum,
                                !.started_at = req.now, !.scenes = scenes,
                                !.stage = "completed"]
        ELSE ExceptBlock(t, req)

GenerateStory(req, seeding, generation, scenes) ==
    /\ response' = [GenerateStoryResponse(req, seeding, generation, scenes)
                       EXCEPT !.seeding = seeding, !.generation = generation]
    /\ UNCHANGED <<storeVars, concVars>>

Requests ==
    [subject : Subjects, topic : Topics, grade : Grades, curriculum : Curricula,
     specific_area : SpecificAreas, story_id : StoryIds, now : Times]

NextApi ==
    \E req \in Requests, seeding \in SeedOutcomes, generation \in GenOutcomes,
       scenes \in SceneLists :
        GenerateStory(req, seeding, generation, scenes)

SpecApi == Init /\ [][NextApi]_vars

\* ------------------------------------------------------------- properties
TextOf(payload) == Get(payload, "text", EmptyString)

MetaKeys(payload) == Keys(payload) \ {"text"}

PointWithId(pts, id) == CHOOSE p \in pts : p.id = id

\* The text closest to query q among the stored points is T: every point
\* carrying another text scores strictly lower than T does.
ClosestTextIs(q, T, pts) ==
    \A p \in pts :
        TextOf(p.payload) # T => Score(Encode(q), p.vector) < Score(Encode(q), Encode(T))

\* C1 (as claimed): after two successive successful add_texts calls of one
\* text each, with metadata of disjoint keys, both points are stored: the
\* first call's point is still there with its text and metadata, beside the
\* second call's point.
C1_BothSeedsStored ==
    (/\ last.op = "add_texts" /\ last.fault = "none"
     /\ Len(last.texts) = 1 /\ Len(last.ids) = 1
     /\ prevSeed.text # 0
     /\ MetaKeys(prevSeed.payload)
          \cap MetaKeys(PointWithId(points, last.ids[1]).payload) = {})
    => \E p1, p2 \in points :
          /\ p1.id # p2.id
          /\ p1.id = prevSeed.id /\ p1.payload = prevSeed.payload
          /\ p2.id = last.ids[1] /\ TextOf(p2.payload) = last.texts[1]

\* C2: add_texts with empty texts makes no call to the embedding model or to
\* the database client, leaves the collection as it was and returns normally.
C2_EmptySeedIsNoOp ==
    (last.op = "add_texts" /\ last.texts = <<>>)
    => /\ last.calls = {}
       /\ ~last.changed
       /\ last.fault = "none" /\ ~last.raised

C2_Witness ==
    /\ last.op = "add_texts" /\ last.texts = <<>> /\ last.calls = {}
    /\ points # {}

\* C3: a search whose embedding step or database search fails returns the
\* empty sequence, raises nothing and leaves the collection as it was.
C3_FailedSearchReturnsEmpty ==
    (last.op = "search" /\ last.fault # "none")
    => /\ last.result = <<>>
       /\ ~last.raised
       /\ ~last.changed

C3_Witness ==
    /\ last.op = "search" /\ last.fault = "search" /\ last.limit >= 1
    /\ exists /\ points # {} /\ last.result = <<>>

\* C4: a failure inside _create_collection or inside add_texts on a non-empty
\* batch is not raised to the caller, and an add_texts that fails before its
\* upsert leaves the collection as it was.
C4_FailuresAreSwallowed ==
    /\ (last.op \in {"init", "add_texts"} /\ last.fault # "none") => ~last.raised
    /\ (last.op = "add_texts" /\ last.fault \in {"load_model", "encode", "scroll"})
          => ~last.changed

C4_Witness ==
    /\ last.op = "add_texts" /\ last.fault = "scroll" /\ last.texts # <<>>
    /\ exists /\ points # {} /\ ~last.raised

\* C5: a construction that follows one that completed without a failure
\* finds the collection, issues no create_collection call, raises nothing and
\* leaves the stored points as they were.
C5_InitIsIdempotent ==
    (last.op = "init" /\ last.wasInitialized)
    => /\ "create_collection" \notin last.calls
       /\ exists
       /\ ~last.raised
       /\ ~last.changed

C5_Witness ==
    /\ last.op = "init" /\ last.wasInitialized /\ last.fault = "none"
    /\ points # {}

\* C6: a search with limit >= 1 that succeeds after a successful
\* add_texts([T]), for a query whose closest stored text is T, returns T first,
\* with the highest score of the results.
C6_SeededTextRanksFirst ==
    (/\ last.op = "search" /\ last.fault = "none" /\ last.limit >= 1
     /\ prevSeed.text # 0
     /\ ClosestTextIs(last.query, prevSeed.text, points))
    => /\ Len(last.result) >= 1
       /\ TextOf(last.result[1]) = prevSeed.text
       /\ \A i \in 1..Len(last.result) :
             Get(last.result[i], "score", 0) <= Get(last.result[1], "score", 0)

C6_Witness ==
    /\ last.op = "search" /\ last.fault = "none" /\ last.limit >= 1
    /\ prevSeed.text # 0
    /\ ClosestTextIs(last.query, prevSeed.text, points)
    /\ \E p \in points : TextOf(p.payload) # prevSeed.text
    /\ TextOf(last.result[1]) = prevSeed.text

\* C7: search never returns more results than the limit asked for.
C7_ResultsWithinLimit ==
    last.op = "search" => Len(last.result) <= last.limit

C7_Witness ==
    /\ last.op = "search" /\ last.fault = "none" /\ last.limit >= 1
    /\ Cardinality(points) > last.limit
    /\ Len(last.result) = last.limit

\* C9 (as claimed): a successful add_texts assigns to position i the number
\* of stored points plus i, so the collection grows by the size of the batch.
C9_IdsFollowCollectionSize ==
    (last.op = "add_texts" /\ last.fault = "none")
    => /\ \A i \in 1..Len(last.ids) : last.ids[i] = last.sizeBefore + (i - 1)
       /\ Cardinality(points) = last.sizeBefore + Len(last.ids)

\* C8: when two add_texts calls overlapped (the second writer had read the
\* collection before the first wrote) and computed the same identifier, the
\* second upsert completes without an error and replaces the first caller's
\* point: the identifier now carries the second caller's point, and the first
\* caller's point is gone from the collection.
C8_RaceOverwrites ==
    race.second # <<>>
    => \A i \in 1..Len(race.first), k \in 1..Len(race.second) :
          race.first[i].id = race.second[k].id
          => /\ race.second[k] \in points
             /\ race.first[i] # race.second[k] => race.first[i] \notin points

C8_Witness ==
    /\ race.second # <<>>
    /\ Len(race.first) = 1 /\ Len(race.second) = 1
    /\ race.first[1].id = race.second[1].id
    /\ TextOf(race.first[1].payload) # TextOf(race.second[1].payload)
    /\ \A p \in points : TextOf(p.payload) # TextOf(race.first[1].payload)

\* C10 (as claimed): every request is answered well-formedly: 400 with the
\* detail 'Subject and topic are required' when subject or topic is empty,
\* otherwise a response with story_id and started_at whose status is
\* completed or failed; the handler never ends in an unhandled exception.
C10_WellFormedOutcome ==
    response.http # 0
    => /\ ~response.unhandled
       /\ MissingField(response.subject, response.topic)
            => response.http = 400 /\ response.detail = "Subject and topic are required"
       /\ ~MissingField(response.subject, response.topic)
            => /\ response.story_id # "" /\ response.started_at # ""
               /\ response.status \in {"completed", "failed"}
               /\ response.status = "completed"
                    <=> (response.seeding = "returns" /\ response.generation = "returns")
               /\ response.status = "failed" => response.error # ""

====
